---- MODULE Spec2Model ----
(***************************************************************************)
(* Model of sweetprocess_api_wrapper.py: the SweetProcessAPI client.  The  *)
(* client is constructed from a token and then forwards each of its eight  *)
(* methods to one call of the requests library.  A method call is modelled *)
(* in two steps, as the code blocks on the library call: the method builds *)
(* its request and issues it (pc = "waiting"), then the response or the    *)
(* transport error arrives and the rest of the method body runs to its     *)
(* return or to an uncaught exception (pc = "returned").                   *)
(***************************************************************************)
EXTENDS Integers, Sequences, FiniteSets, TLC

\* Bounds of the model.
MaxId == 2          \* user_id / teamuser_id range over 1..MaxId
MaxCalls == 2       \* calls started in one run of SpecConc
NumCallers == 2     \* concurrent callers sharing the client in SpecConc

VARIABLES
  client,     \* <<>> before/without construction, else <<[base_url, headers]>>
  ctor,       \* "pending", "returned" or the exception the constructor raised
  api_token,  \* the argument the constructor was called with
  pc,         \* per caller: "idle", "waiting" (request in flight), "returned"
  call,       \* per caller: the method called and its arguments
  req,        \* per caller: the arguments handed to requests.<verb>
  resp,       \* per caller: what the transport delivered for that request
  ret,        \* per caller: the value returned or the exception raised
  calls,      \* history: the calls started, in order
  sent        \* history: the requests issued, in order

vars == <<client, ctor, api_token, pc, call, req, resp, ret, calls, sent>>

Callers == 1..NumCallers
MainCaller == 1
Ids == 1..MaxId

-----------------------------------------------------------------------------
(* Python values, tagged with their type; v is str(value).                 *)

PyNone == [t |-> "NoneType", v |-> "None"]
PyStr(s) == [t |-> "str", v |-> s]
PyInt(n) == [t |-> "int", v |-> ToString(n)]
PyBool(b) == [t |-> "bool", v |-> IF b THEN "True" ELSE "False"]

\* Python truthiness of a value, as `not api_token` evaluates it.
Truthy(x) ==
  CASE x.t = "NoneType" -> FALSE
    [] x.t = "str" -> x.v # ""
    [] x.t = "int" -> x.v # "0"
    [] x.t = "bool" -> x.v = "True"

\* {x} inside an f-string: str(x).
Format(x) == x.v

EmptyDict == [k \in {} |-> PyNone]

\* A json= argument: a dict (shape "object"), a list of dicts (shape
\* "array"), or no json argument at all (shape "none").
NoJson == [shape |-> "none", items |-> <<>>]
JsonObject(d) == [shape |-> "object", items |-> <<d>>]
JsonArray(ds) == [shape |-> "array", items |-> ds]

-----------------------------------------------------------------------------
(* Construction.                                                           *)

BaseUrl == "https://www.sweetprocess.com/api/v1"

TokenMissingNoneOnly(tok) == tok = PyNone
TokenMissing(tok) == ~Truthy(tok)

Headers(tok) ==
  [h \in {"Authorization", "Content-Type"} |->
     IF h = "Authorization" THEN "Token " \o Format(tok) ELSE "application/json"]

Tokens == {PyNone, PyStr(""), PyStr("abc"), PyStr("k9")}

SweetProcessAPI_init(tok) ==
  /\ ctor = "pending"
  /\ api_token' = tok
  /\ IF TokenMissing(tok)
     THEN /\ ctor' = "ValueError"
          /\ client' = <<>>
     ELSE /\ ctor' = "returned"
          /\ client' = <<[base_url |-> BaseUrl, headers |-> Headers(tok)]>>
  /\ UNCHANGED <<pc, call, req, resp, ret, calls, sent>>

-----------------------------------------------------------------------------
(* What the requests library does with the arguments and the response.     *)

\* The query string requests builds from params=: a key whose value is None
\* is left out, every other value is sent as its string form.
EncodeParams(params) ==
  [k \in {kk \in DOMAIN params : params[kk] # PyNone} |-> Format(params[k])]

\* response.raise_for_status(): raises HTTPError (a RequestException) for
\* 4xx and 5xx status codes, and returns normally for every other status.
raise_for_status_5xx(status) == 500 <= status /\ status < 600
raise_for_status(status) == 400 <= status /\ status < 600

\* response.json(): the body decoded as JSON, when it is JSON.
JsonDecodable(body) == body \in {"null", "true", "{\"results\": []}"}
JsonDecode(body) ==
  CASE body = "null" -> PyNone
    [] body = "true" -> PyBool(TRUE)
    [] body = "{\"results\": []}" -> [t |-> "dict", v |-> "{'results': []}"]

TransportError == [kind |-> "transport_error", status |-> 0, body |-> ""]
NoResp == [kind |-> "none", status |-> 0, body |-> ""]
HttpResponse(status, body) == [kind |-> "response", status |-> status, body |-> body]

Statuses == {200, 204, 304, 404, 500}
Bodies == {"", "null", "true", "{\"results\": []}"}
Responses == {HttpResponse(s, b) : s \in Statuses, b \in Bodies} \cup {TransportError}

-----------------------------------------------------------------------------
(* The eight methods: what each hands to requests.                         *)

ListOps == {"get_procedures", "get_taskinstances", "get_users"}
JsonOps == ListOps \cup {"invite_user", "update_user", "create_invitation"}
DeleteOps == {"delete_user", "delete_teamuser"}
Ops == JsonOps \cup DeleteOps

procedures_params(team_id, search, tag, policy_id, visible_to_user, ordering) ==
  ("team_id" :> team_id) @@ ("search" :> search) @@ ("tag" :> tag) @@
  ("policy_id" :> policy_id) @@ ("visible_to_user" :> visible_to_user) @@
  ("ordering" :> ordering)

taskinstances_params_spec_names(template_id, user, content_type, object_id, completed, due__lte, due__gte) ==
  ("template_id" :> template_id) @@ ("user" :> user) @@
  ("content_type" :> content_type) @@ ("object_id" :> object_id) @@
  ("completed" :> completed) @@ ("due_before" :> due__lte) @@
  ("due_after" :> due__gte)
taskinstances_params(template_id, user, content_type, object_id, completed, due__lte, due__gte) ==
  ("template_id" :> template_id) @@ ("user" :> user) @@
  ("content_type" :> content_type) @@ ("object_id" :> object_id) @@
  ("completed" :> completed) @@ ("due__lte" :> due__lte) @@
  ("due__gte" :> due__gte)

users_params_truthy(team_id, exclude_team_id, id, exclude_id, status) ==
  LET all == ("team_id" :> team_id) @@ ("exclude_team_id" :> exclude_team_id) @@
             ("id" :> id) @@ ("exclude_id" :> exclude_id) @@ ("status" :> status)
  IN [k \in {kk \in DOMAIN all : Truthy(all[kk])} |-> all[k]]
users_params(team_id, exclude_team_id, id, exclude_id, status) ==
  ("team_id" :> team_id) @@ ("exclude_team_id" :> exclude_team_id) @@
  ("id" :> id) @@ ("exclude_id" :> exclude_id) @@ ("status" :> status)

invite_user_data(name, email, is_super_manager) ==
  ("name" :> name) @@ ("email" :> email) @@ ("is_super_manager" :> is_super_manager)

create_invitation_data_bare(send_mail, content_type, permission, object_id, to_user_id) ==
  JsonObject(("send_mail" :> send_mail) @@ ("content_type" :> content_type) @@
             ("permission" :> permission) @@ ("object_id" :> object_id) @@
             ("to_user_id" :> to_user_id))
create_invitation_data(send_mail, content_type, permission, object_id, to_user_id) ==
  JsonArray(<< ("send_mail" :> send_mail) @@ ("content_type" :> content_type) @@
               ("permission" :> permission) @@ ("object_id" :> object_id) @@
               ("to_user_id" :> to_user_id) >>)

update_user_method_put == "PUT"
update_user_method == "PATCH"

user_url_no_id(base_url, user_id) == base_url \o "/users/"
user_url(base_url, user_id) == base_url \o "/users/" \o Format(user_id) \o "/"
teamuser_url(base_url, teamuser_id) == base_url \o "/teamusers/" \o Format(teamuser_id) \o "/"

\* One call of requests.get / post / patch / delete: one request goes out.
IssueTwice(log, r) == Append(Append(log, r), r)
Issue(log, r) == Append(log, r)

\* The attributes of self after a method body ran: no method assigns one.
SelfAfterRebuilt(self, op) ==
  IF op \in DeleteOps
  THEN <<[base_url |-> self[1].base_url, headers |-> Headers(PyNone)]>>
  ELSE self
SelfAfter(self, op) == self

NoCall == [op |-> "none", args |-> EmptyDict, data |-> EmptyDict]
NoReq == [method |-> "none", url |-> "",
          headers |-> [h \in {"Authorization", "Content-Type"} |-> ""],
          params |-> EmptyDict, json |-> NoJson]
NoRet == [raised |-> "", value |-> PyNone]

\* The common shape of the first half of every method: build the request from
\* self and the arguments and hand it to requests.
Start(c, op, args, data, method, url, params, json) ==
  /\ ctor = "returned"
  /\ pc[c] # "waiting"
  /\ Len(calls) < MaxCalls
  /\ pc' = [pc EXCEPT ![c] = "waiting"]
  /\ call' = [call EXCEPT ![c] = [op |-> op, args |-> args, data |-> data]]
  /\ req' = [req EXCEPT ![c] = [method |-> method, url |-> url,
                                headers |-> client[1].headers,
                                params |-> params, json |-> json]]
  /\ resp' = [resp EXCEPT ![c] = NoResp]
  /\ ret' = [ret EXCEPT ![c] = NoRet]
  /\ calls' = Append(calls, [caller |-> c, op |-> op])
  /\ sent' = Issue(sent, [caller |-> c, method |-> method, url |-> url])
  /\ client' = SelfAfter(client, op)
  /\ UNCHANGED <<ctor, api_token>>

get_procedures(c, team_id, search, tag, policy_id, visible_to_user, ordering) ==
  /\ ctor = "returned"
  /\ Start(c, "get_procedures",
           ("team_id" :> team_id) @@ ("search" :> search) @@ ("tag" :> tag) @@
           ("policy_id" :> policy_id) @@ ("visible_to_user" :> visible_to_user) @@
           ("ordering" :> ordering),
           EmptyDict, "GET", client[1].base_url \o "/procedures/",
           procedures_params(team_id, search, tag, policy_id, visible_to_user,
                             ordering),
           NoJson)

get_taskinstances(c, template_id, user, content_type, object_id, completed, due__lte, due__gte) ==
  /\ ctor = "returned"
  /\ Start(c, "get_taskinstances",
           ("template_id" :> template_id) @@ ("user" :> user) @@
           ("content_type" :> content_type) @@ ("object_id" :> object_id) @@
           ("completed" :> completed) @@ ("due__lte" :> due__lte) @@
           ("due__gte" :> due__gte),
           EmptyDict, "GET", client[1].base_url \o "/taskinstances/",
           taskinstances_params(template_id, user, content_type, object_id,
                                completed, due__lte, due__gte),
           NoJson)

get_users(c, team_id, exclude_team_id, id, exclude_id, status) ==
  /\ ctor = "returned"
  /\ Start(c, "get_users",
           ("team_id" :> team_id) @@ ("exclude_team_id" :> exclude_team_id) @@
           ("id" :> id) @@ ("exclude_id" :> exclude_id) @@ ("status" :> status),
           EmptyDict, "GET", client[1].base_url \o "/users/",
           users_params(team_id, exclude_team_id, id, exclude_id, status),
           NoJson)

invite_user(c, name, email, is_super_manager) ==
  /\ ctor = "returned"
  /\ Start(c, "invite_user",
           ("name" :> name) @@ ("email" :> email) @@
           ("is_super_manager" :> is_super_manager),
           EmptyDict, "POST", client[1].base_url \o "/users/", EmptyDict,
           JsonObject(invite_user_data(name, email, is_super_manager)))

update_user(c, user_id, data) ==
  /\ ctor = "returned"
  /\ Start(c, "update_user", ("user_id" :> user_id), data,
           update_user_method, user_url(client[1].base_url, user_id),
           EmptyDict, JsonObject(data))

delete_user(c, user_id) ==
  /\ ctor = "returned"
  /\ Start(c, "delete_user", ("user_id" :> user_id), EmptyDict,
           "DELETE", user_url(client[1].base_url, user_id), EmptyDict, NoJson)

create_invitation(c, send_mail, content_type, permission, object_id, to_user_id) ==
  /\ ctor = "returned"
  /\ Start(c, "create_invitation",
           ("send_mail" :> send_mail) @@ ("content_type" :> content_type) @@
           ("permission" :> permission) @@ ("object_id" :> object_id) @@
           ("to_user_id" :> to_user_id),
           EmptyDict, "POST", client[1].base_url \o "/invitations/", EmptyDict,
           create_invitation_data(send_mail, content_type, permission,
                                  object_id, to_user_id))

delete_teamuser(c, teamuser_id) ==
  /\ ctor = "returned"
  /\ Start(c, "delete_teamuser", ("teamuser_id" :> teamuser_id), EmptyDict,
           "DELETE", teamuser_url(client[1].base_url, teamuser_id),
           EmptyDict, NoJson)

-----------------------------------------------------------------------------
(* The second half of every method: the try block after the request.       *)

Returns(x) == [raised |-> "", value |-> x]
Raises(e) == [raised |-> e, value |-> PyNone]

\* What the success path returns: response.status_code for the two delete
\* methods, response.json() for the six others.
SuccessValueStatusOnly(op, r) == PyInt(r.status)
SuccessValue(op, r) ==
  IF op \in DeleteOps THEN PyInt(r.status) ELSE JsonDecode(r.body)

\* try: raise_for_status(); return <success value>
\* except requests.exceptions.RequestException: log; return None
\* A body that is not JSON makes response.json() raise: a RequestException
\* (caught, None) with a requests whose JSONDecodeError derives from it, a
\* plain ValueError (not caught) with an older one; json_error_caught says
\* which library the program runs with.
Complete(op, r, json_error_caught) ==
  IF r.kind = "transport_error" THEN Returns(PyNone)
  ELSE IF raise_for_status(r.status) THEN Returns(PyNone)
  ELSE IF op \in JsonOps /\ ~JsonDecodable(r.body)
       THEN IF json_error_caught THEN Returns(PyNone) ELSE Raises("ValueError")
  ELSE Returns(SuccessValue(op, r))

Return(c, r, json_error_caught) ==
  /\ pc[c] = "waiting"
  /\ pc' = [pc EXCEPT ![c] = "returned"]
  /\ resp' = [resp EXCEPT ![c] = r]
  /\ ret' = [ret EXCEPT ![c] = Complete(call[c].op, r, json_error_caught)]
  /\ UNCHANGED <<client, ctor, api_token, call, req, calls, sent>>

-----------------------------------------------------------------------------
(* Specifications.                                                         *)

Init ==
  /\ client = <<>>
  /\ ctor = "pending"
  /\ api_token = PyNone
  /\ pc = [c \in Callers |-> "idle"]
  /\ call = [c \in Callers |-> NoCall]
  /\ req = [c \in Callers |-> NoReq]
  /\ resp = [c \in Callers |-> NoResp]
  /\ ret = [c \in Callers |-> NoRet]
  /\ calls = <<>>
  /\ sent = <<>>

\* A filter or argument is either left at its default None or given a value.
Opt(x) == {PyNone, x}

Datas == {EmptyDict, ("name" :> PyStr("X")),
          ("name" :> PyStr("X")) @@ ("email" :> PyStr("x@example.org"))}

\* Spec: the first call on a freshly constructed client, for every method,
\* every combination of arguments and every outcome of the request.
Next ==
  \/ \E tok \in Tokens : SweetProcessAPI_init(tok)
  \/ /\ calls = <<>>
     /\ \E team_id \in Opt(PyInt(1)), search \in Opt(PyStr("")),
           tag \in Opt(PyStr("a,b")), policy_id \in Opt(PyInt(0)),
           visible_to_user \in Opt(PyInt(2)), ordering \in Opt(PyStr("name")) :
          get_procedures(MainCaller, team_id, search, tag, policy_id,
                         visible_to_user, ordering)
  \/ /\ calls = <<>>
     /\ \E template_id \in Opt(PyInt(3)), user \in Opt(PyStr("/users/1/")),
           content_type \in Opt(PyStr("procedure")), object_id \in Opt(PyInt(0)),
           completed \in Opt(PyBool(FALSE)),
           due__lte \in Opt(PyStr("2024-01-31")),
           due__gte \in Opt(PyStr("2024-01-01")) :
          get_taskinstances(MainCaller, template_id, user, content_type,
                            object_id, completed, due__lte, due__gte)
  \/ /\ calls = <<>>
     /\ \E team_id \in Opt(PyInt(1)), exclude_team_id \in Opt(PyInt(2)),
           id \in Opt(PyInt(0)), exclude_id \in Opt(PyInt(4)),
           status \in {PyNone, PyStr("active"), PyStr("")} :
          get_users(MainCaller, team_id, exclude_team_id, id, exclude_id, status)
  \/ /\ calls = <<>>
     /\ \E name \in {PyStr("Ann"), PyStr("")},
           email \in {PyStr("ann@example.org"), PyNone},
           is_super_manager \in {PyInt(0), PyInt(1)} :
          invite_user(MainCaller, name, email, is_super_manager)
  \/ /\ calls = <<>>
     /\ \E user_id \in Ids, data \in Datas :
          update_user(MainCaller, PyInt(user_id), data)
  \/ /\ calls = <<>>
     /\ \E user_id \in Ids : delete_user(MainCaller, PyInt(user_id))
  \/ /\ calls = <<>>
     /\ \E send_mail \in {PyBool(TRUE), PyBool(FALSE)},
           content_type \in {PyStr("team"), PyNone},
           permission \in {PyStr("view"), PyStr("edit")},
           object_id \in {PyInt(0), PyInt(5)},
           to_user_id \in {PyStr("/users/1/"), PyNone} :
          create_invitation(MainCaller, send_mail, content_type, permission,
                            object_id, to_user_id)
  \/ /\ calls = <<>>
     /\ \E teamuser_id \in Ids : delete_teamuser(MainCaller, PyInt(teamuser_id))
  \/ \E r \in Responses, json_error_caught \in BOOLEAN :
       Return(MainCaller, r, json_error_caught)

Spec == Init /\ [][Next]_vars

\* SpecConc: up to MaxCalls calls, in any order and interleaving, by
\* NumCallers callers that share one client, with one representative argument
\* list per method and one outcome of each kind.
ConcResponses ==
  {HttpResponse(200, "{\"results\": []}"), HttpResponse(500, ""), TransportError}

NextConc ==
  \/ \E tok \in {PyStr(""), PyStr("abc")} : SweetProcessAPI_init(tok)
  \/ \E c \in Callers :
       get_procedures(c, PyInt(1), PyNone, PyNone, PyNone, PyNone, PyStr("name"))
  \/ \E c \in Callers :
       get_taskinstances(c, PyNone, PyNone, PyNone, PyNone, PyBool(FALSE),
                         PyStr("2024-01-31"), PyNone)
  \/ \E c \in Callers :
       get_users(c, PyNone, PyNone, PyNone, PyNone, PyStr("active"))
  \/ \E c \in Callers :
       invite_user(c, PyStr("Ann"), PyStr("ann@example.org"), PyInt(0))
  \/ \E c \in Callers : update_user(c, PyInt(1), ("name" :> PyStr("X")))
  \/ \E c \in Callers : delete_user(c, PyInt(1))
  \/ \E c \in Callers :
       create_invitation(c, PyBool(TRUE), PyStr("team"), PyStr("view"),
                         PyInt(5), PyStr("/users/1/"))
  \/ \E c \in Callers : delete_teamuser(c, PyInt(1))
  \/ \E c \in Callers, r \in ConcResponses : Return(c, r, TRUE)

SpecConc == Init /\ [][NextConc]_vars

-----------------------------------------------------------------------------
(* Vocabulary of the properties.                                           *)

Done(c) == pc[c] = "returned"
InFlightOrDone(c) == pc[c] # "idle"
Is2xx(status) == 200 <= status /\ status < 300
Is4xx5xx(status) == 400 <= status /\ status < 600
GotResponse(c) == resp[c].kind = "response"
GotTransportError(c) == resp[c].kind = "transport_error"
ReturnedNone(c) == ret[c].raised = "" /\ ret[c].value = PyNone
Provided(args) == {k \in DOMAIN args : args[k] # PyNone}
WireQuery(c) == EncodeParams(req[c].params)
StatusCode(n) == [t |-> "int", v |-> ToString(n)]
ApiRoot == "https://www.sweetprocess.com/api/v1"

-----------------------------------------------------------------------------
(* C1 *)

\* C1 as stated: whenever a method has returned after a transport failure or
\* after a response whose status is outside 200..299, it returned None (it
\* neither raised nor returned a payload or status code).
C1_Non2xxGivesNone ==
  \A c \in Callers :
    Done(c) /\ (GotTransportError(c) \/ (GotResponse(c) /\ ~Is2xx(resp[c].status)))
      => ReturnedNone(c)

\* C1 as amended: whenever a method has returned after a transport failure or
\* after a response with a 4xx or 5xx status, it returned None: it did not
\* raise and returned neither a payload nor a status code.
C1_FailureGivesNone ==
  \A c \in Callers :
    Done(c) /\ (GotTransportError(c) \/ (GotResponse(c) /\ Is4xx5xx(resp[c].status)))
      => ReturnedNone(c)

C1_Witness ==
  \E c \in Callers :
    /\ Done(c) /\ call[c].op = "get_users"
    /\ GotResponse(c) /\ resp[c].status = 500 /\ resp[c].body = "true"
    /\ ReturnedNone(c)

-----------------------------------------------------------------------------
(* C2 *)

\* C2 as stated: no request is issued before construction; construction with
\* an empty or absent (None) token ends in a ConfigurationError with no client
\* object and no request issued; with a non-empty token it yields a client
\* whose base URL is the fixed one and whose headers are Authorization =
\* "Token <token>" and Content-Type = "application/json".
C2_ConfigurationError ==
  /\ ctor = "pending" => client = <<>> /\ sent = <<>>
  /\ ctor # "pending" /\ api_token \in {PyNone, PyStr("")} =>
       /\ ctor = "ConfigurationError"
       /\ client = <<>>
       /\ sent = <<>> /\ calls = <<>> /\ \A c \in Callers : pc[c] = "idle"
  /\ ctor # "pending" /\ api_token \notin {PyNone, PyStr("")} =>
       /\ ctor = "returned"
       /\ Len(client) = 1
       /\ client[1].base_url = ApiRoot
       /\ DOMAIN client[1].headers = {"Authorization", "Content-Type"}
       /\ client[1].headers["Authorization"] = "Token " \o api_token.v
       /\ client[1].headers["Content-Type"] = "application/json"

\* C2 as amended: the same, the failure being a ValueError.
C2_ValueError ==
  /\ ctor = "pending" => client = <<>> /\ sent = <<>>
  /\ ctor # "pending" /\ api_token \in {PyNone, PyStr("")} =>
       /\ ctor = "ValueError"
       /\ client = <<>>
       /\ sent = <<>> /\ calls = <<>> /\ \A c \in Callers : pc[c] = "idle"
  /\ ctor # "pending" /\ api_token \notin {PyNone, PyStr("")} =>
       /\ ctor = "returned"
       /\ Len(client) = 1
       /\ client[1].base_url = ApiRoot
       /\ DOMAIN client[1].headers = {"Authorization", "Content-Type"}
       /\ client[1].headers["Authorization"] = "Token " \o api_token.v
       /\ client[1].headers["Content-Type"] = "application/json"

C2_Witness == ctor = "ValueError" /\ api_token = PyStr("") /\ client = <<>>

-----------------------------------------------------------------------------
(* C3 *)

\* C3: for each list method, the query parameters of the GET request on the
\* wire are exactly the filters the caller gave a value, each with that value;
\* a filter left unset is not on the wire at all.
C3_OnlyProvidedFilters ==
  \A c \in Callers :
    InFlightOrDone(c) /\ call[c].op \in ListOps =>
      /\ req[c].method = "GET"
      /\ DOMAIN WireQuery(c) = Provided(call[c].args)
      /\ \A k \in Provided(call[c].args) : WireQuery(c)[k] = call[c].args[k].v
      /\ \A k \in DOMAIN call[c].args :
           call[c].args[k] = PyNone => k \notin DOMAIN WireQuery(c)

C3_Witness ==
  \E c \in Callers :
    /\ pc[c] = "waiting" /\ call[c].op = "get_users"
    /\ call[c].args["status"] = PyStr("active")
    /\ call[c].args["id"] = PyInt(0)
    /\ call[c].args["team_id"] = PyNone
    /\ DOMAIN WireQuery(c) = {"status", "id"}

-----------------------------------------------------------------------------
(* C4 *)

\* C4 as stated: get_taskinstances sends its GET to /taskinstances/, the
\* filter names it puts in params are template_id, user, content_type,
\* object_id, completed, due_before and due_after, and a due-date filter the
\* caller supplied is on the wire under due_before or due_after.
C4_DueBeforeDueAfter ==
  \A c \in Callers :
    InFlightOrDone(c) /\ call[c].op = "get_taskinstances" =>
      /\ req[c].method = "GET"
      /\ req[c].url = ApiRoot \o "/taskinstances/"
      /\ DOMAIN req[c].params =
           {"template_id", "user", "content_type", "object_id", "completed",
            "due_before", "due_after"}
      /\ call[c].args["due__lte"] # PyNone => "due_before" \in DOMAIN WireQuery(c)
      /\ call[c].args["due__gte"] # PyNone => "due_after" \in DOMAIN WireQuery(c)

\* C4 as amended: the same with the two due-date filters named due__lte and
\* due__gte, in the method's arguments and on the wire.
C4_DueLteDueGte ==
  \A c \in Callers :
    InFlightOrDone(c) /\ call[c].op = "get_taskinstances" =>
      /\ req[c].method = "GET"
      /\ req[c].url = ApiRoot \o "/taskinstances/"
      /\ DOMAIN req[c].params =
           {"template_id", "user", "content_type", "object_id", "completed",
            "due__lte", "due__gte"}
      /\ call[c].args["due__lte"] # PyNone => "due__lte" \in DOMAIN WireQuery(c)
      /\ call[c].args["due__gte"] # PyNone => "due__gte" \in DOMAIN WireQuery(c)

C4_Witness ==
  \E c \in Callers :
    /\ pc[c] = "waiting" /\ call[c].op = "get_taskinstances"
    /\ call[c].args["due__lte"] = PyStr("2024-01-31")
    /\ call[c].args["due__gte"] = PyNone
    /\ WireQuery(c)["due__lte"] = "2024-01-31"

-----------------------------------------------------------------------------
(* C5 *)

\* x is the JSON-decoded body: the body is JSON and decodes to x.
DecodesTo(body, x) == JsonDecodable(body) /\ JsonDecode(body) = x

-----------------------------------------------------------------------------
(* C6 *)

\* The request side of C6: DELETE to /users/{id}/ and to /teamusers/{id}/.
DeleteRequests ==
  \A c \in Callers :
    /\ InFlightOrDone(c) /\ call[c].op = "delete_user" =>
         /\ req[c].method = "DELETE"
         /\ req[c].url = ApiRoot \o "/users/" \o call[c].args["user_id"].v \o "/"
    /\ InFlightOrDone(c) /\ call[c].op = "delete_teamuser" =>
         /\ req[c].method = "DELETE"
         /\ req[c].url =
              ApiRoot \o "/teamusers/" \o call[c].args["teamuser_id"].v \o "/"

-----------------------------------------------------------------------------
(* C7 *)

\* C7: create_invitation sends a POST to /invitations/ whose JSON body is an
\* array of one object with exactly the keys send_mail, content_type,
\* permission, object_id and to_user_id, each holding the argument of that name.
C7_InvitationBody ==
  \A c \in Callers :
    InFlightOrDone(c) /\ call[c].op = "create_invitation" =>
      /\ req[c].method = "POST"
      /\ req[c].url = ApiRoot \o "/invitations/"
      /\ req[c].json.shape = "array"
      /\ Len(req[c].json.items) = 1
      /\ DOMAIN req[c].json.items[1] =
           {"send_mail", "content_type", "permission", "object_id", "to_user_id"}
      /\ \A k \in {"send_mail", "content_type", "permission", "object_id",
                   "to_user_id"} :
           req[c].json.items[1][k] = call[c].args[k]

C7_Witness ==
  \E c \in Callers :
    /\ pc[c] = "waiting" /\ call[c].op = "create_invitation"
    /\ call[c].args["send_mail"] = PyBool(FALSE)
    /\ call[c].args["to_user_id"] = PyNone
    /\ req[c].json.items[1]["object_id"] = PyInt(5)

-----------------------------------------------------------------------------
(* C8 *)

\* C8: update_user sends a PATCH to /users/{user_id}/ whose JSON body is the
\* data the caller passed, and invite_user sends a POST to /users/ whose JSON
\* body is an object with exactly the keys name, email and is_super_manager,
\* each holding the argument of that name.
C8_PatchAndInviteBodies ==
  \A c \in Callers :
    /\ InFlightOrDone(c) /\ call[c].op = "update_user" =>
         /\ req[c].method = "PATCH"
         /\ req[c].url = ApiRoot \o "/users/" \o call[c].args["user_id"].v \o "/"
         /\ req[c].json.shape = "object"
         /\ req[c].json.items = <<call[c].data>>
    /\ InFlightOrDone(c) /\ call[c].op = "invite_user" =>
         /\ req[c].method = "POST"
         /\ req[c].url = ApiRoot \o "/users/"
         /\ req[c].json.shape = "object"
         /\ Len(req[c].json.items) = 1
         /\ DOMAIN req[c].json.items[1] = {"name", "email", "is_super_manager"}
         /\ \A k \in {"name", "email", "is_super_manager"} :
              req[c].json.items[1][k] = call[c].args[k]

C8_Witness ==
  \E c \in Callers :
    /\ pc[c] = "waiting" /\ call[c].op = "update_user"
    /\ DOMAIN call[c].data = {"name"} /\ call[c].data["name"] = PyStr("X")
    /\ req[c].method = "PATCH"

-----------------------------------------------------------------------------
(* C9 *)

VerbOf(op) ==
  CASE op \in ListOps -> "GET"
    [] op \in {"invite_user", "create_invitation"} -> "POST"
    [] op = "update_user" -> "PATCH"
    [] op \in DeleteOps -> "DELETE"

CallsBy(c) == {i \in 1..Len(calls) : calls[i].caller = c}
SentFor(c) == {i \in 1..Len(sent) : sent[i].caller = c}

-----------------------------------------------------------------------------
(* C10 *)

KnownUrls ==
  {ApiRoot \o p : p \in {"/procedures/", "/taskinstances/", "/users/",
                         "/invitations/"}}
  \cup {ApiRoot \o "/users/" \o ToString(i) \o "/" : i \in Ids}
  \cup {ApiRoot \o "/teamusers/" \o ToString(i) \o "/" : i \in Ids}

\* C10: once constructed, the client's base URL and headers stay the values
\* fixed at construction whatever calls are made, succeed or fail, by whichever
\* callers, and every request carries those headers and that base URL.
C10_ClientStateFixed ==
  ctor = "returned" =>
    /\ Len(client) = 1
    /\ client[1].base_url = ApiRoot
    /\ DOMAIN client[1].headers = {"Authorization", "Content-Type"}
    /\ client[1].headers["Authorization"] = "Token " \o api_token.v
    /\ client[1].headers["Content-Type"] = "application/json"
    /\ \A c \in Callers :
         InFlightOrDone(c) =>
           /\ req[c].headers["Authorization"] = "Token " \o api_token.v
           /\ req[c].headers["Content-Type"] = "application/json"
           /\ req[c].url \in KnownUrls
    /\ \A i \in 1..Len(sent) : sent[i].url \in KnownUrls

C10_Witness ==
  /\ Len(calls) = 2
  /\ \E c, d \in Callers :
       /\ c # d
       /\ Done(c) /\ call[c].op = "delete_user" /\ ReturnedNone(c)
       /\ pc[d] = "waiting" /\ call[d].op = "invite_user"
       /\ calls[1].caller = d

====
